---- MODULE Spec2Model ----
(***************************************************************************)
(* Model of the altitude-determination crate: the zone classifier and the  *)
(* inverse pressure/temperature -> altitude function of src/lib.rs, and    *)
(* the zone classifier and the consistency-checking calculate_altitude of  *)
(* src/main.rs (struct AltitudeCalculator).                                *)
(*                                                                         *)
(* The source computes in f64.  The model computes in fixed point:         *)
(*   - altitudes (m), temperatures (deg C) and pressures (kPa, hPa) are    *)
(*     integers counting thousandths (15.04 C is 15040, 22.65 kPa is 22650)*)
(*   - dimensionless ratios, exponents and the per-metre coefficients are  *)
(*     integers counting millionths (5.256 is 5256000, 0.00649 is 6490).   *)
(* A per-metre coefficient that multiplies an altitude to give a          *)
(* dimensionless exponent is written in billionths (-0.000157 is -157000), *)
(* so that Mul, which divides the product by 10^6, yields millionths.      *)
(* powf, exp and ln are computed by series, to about 5 significant digits. *)
(***************************************************************************)
EXTENDS Integers, FiniteSets

VARIABLES pc, op, zone, altitude_m, temperature_c, pressure_hpa,
          pressure_kpa, p, result

vars == <<pc, op, zone, altitude_m, temperature_c, pressure_hpa,
          pressure_kpa, p, result>>

(***************************************************************************)
(* Fixed-point arithmetic standing for the f64 operations of the source.   *)
(***************************************************************************)
ONE == 1000 * 1000

\* a * b / 10^6, rounded down, without forming the full product.
Mul(a, b) ==
    LET ah == a \div 1000
        al == a % 1000
        bh == b \div 1000
        bl == b % 1000
    IN  ah * bh + ((ah * bl + al * bh) + (al * bl) \div 1000) \div 1000

RECURSIVE Pow10(_)
Pow10(n) == IF n = 0 THEN 1 ELSE 10 * Pow10(n - 1)

\* a * 10^n / b, rounded down, by long division (b > 0).
RECURSIVE LongDiv(_, _, _)
LongDiv(a, b, n) ==
    IF n = 0 THEN a \div b
    ELSE (a \div b) * Pow10(n) + LongDiv((a % b) * 10, b, n - 1)

\* the quotient a / b of two numbers of the same scale, in millionths.
FDiv(a, b) == LongDiv(a, b, 6)

Abs(x) == IF x < 0 THEN -x ELSE x

\* ln 2 in millionths.
LN_2 == 693000 + 147

AtanhSeries(z) ==
    LET z2 == Mul(z, z)
        z3 == Mul(z, z2)
        z5 == Mul(z3, z2)
        z7 == Mul(z5, z2)
        z9 == Mul(z7, z2)
    IN  z + z3 \div 3 + z5 \div 5 + z7 \div 7 + z9 \div 9

\* f64::ln of x > 0 (millionths in, millionths out).
RECURSIVE Ln(_)
Ln(x) ==
    IF x > 1414214 THEN LN_2 + Ln(x \div 2)
    ELSE IF x < 707107 THEN Ln(x * 2) - LN_2
    ELSE 2 * AtanhSeries(FDiv(x - ONE, x + ONE))

RECURSIVE ExpSeries(_, _)
ExpSeries(r, k) ==
    IF k > 12 THEN ONE ELSE ONE + Mul(r, ExpSeries(r, k + 1)) \div k

RECURSIVE Pow2(_)
Pow2(n) == IF n = 0 THEN 1 ELSE 2 * Pow2(n - 1)

\* f64::exp (millionths in, millionths out).
Exp(x) ==
    LET n == x \div LN_2
        r == x - n * LN_2
        e == ExpSeries(r, 1)
    IN  IF n >= 0 THEN e * Pow2(n) ELSE e \div Pow2(-n)

\* f64::powf of a base b > 0.
Powf(b, y) == Exp(Mul(y, Ln(b)))

(***************************************************************************)
(* enum AtmosphereZone and Option<f64>.                                    *)
(***************************************************************************)
AtmosphereZone == {"Troposphere", "LowerStratosphere", "UpperStratosphere"}

None == [some |-> FALSE, value |-> 0]

Some(v) == [some |-> TRUE, value |-> v]

(***************************************************************************)
(* src/lib.rs                                                              *)
(***************************************************************************)
\* determine_zone: an if/else ladder with no lower bound.
determine_zone(h) ==
    IF h <= 11000000 THEN "Troposphere"
    ELSE IF h <= 20000000 THEN "LowerStratosphere"
    ELSE "UpperStratosphere"

\* Troposphere branch, `p`: 101.29 * ((t + 273.1) / 288.08).powf(5.256),
\* with t = 15.04.
TroposphereP ==
    LET t == 15040
    IN  Mul(101290, Powf(FDiv(t + 273100, 288080), 5256000))

\* Troposphere branch, `altitude`:
\* ((288.08 / (temperature_c + 273.1)).powf(1.0 / 5.256) - 1.0)
\*     * 288.08 / 0.00649
TroposphereAltitude(t_c) ==
    LET root == Powf(FDiv(288080, t_c + 273100), FDiv(1000, 5256))
    IN  LongDiv(Mul(root - ONE, 288080000), 649, 2)

\* the Troposphere branch with its upper comparison written `>=`.
calculate_altitude_Troposphere_ge(t_c, p_kpa) ==
    IF p_kpa >= TroposphereP \/ p_kpa <= 22650
    THEN None
    ELSE Some(TroposphereAltitude(t_c))

calculate_altitude_Troposphere(t_c, p_kpa) ==
    IF p_kpa > TroposphereP \/ p_kpa <= 22650
    THEN None
    ELSE Some(TroposphereAltitude(t_c))

\* LowerStratosphere branch, `p`: 22.65 * (-0.000157 * 11_000.0).exp()
LowerStratosphereP == Mul(22650, Exp(Mul(-157000, 11000000)))

\* LowerStratosphere branch, `altitude`:
\* 11_000.0 + (pressure_kpa / 22.65).ln() / -0.000157
LowerStratosphereAltitude(p_kpa) ==
    11000000 + LongDiv(-Ln(FDiv(p_kpa, 22650)), 157, 3)

calculate_altitude_LowerStratosphere(t_c, p_kpa) ==
    IF p_kpa > LowerStratosphereP \/ p_kpa <= 2488
    THEN None
    ELSE Some(LowerStratosphereAltitude(p_kpa))

\* UpperStratosphere branch, `p`: 2.488 * ((t + 273.1) / 216.6).powf(-11.388)
\* with t = -131.21 + 0.00299 * (25_000.0 - 25_000.0).
UpperStratosphereP ==
    LET t == -131210 + Mul(2990, 25000000 - 25000000)
    IN  Mul(2488, Powf(FDiv(t + 273100, 216600), -11388000))

\* UpperStratosphere branch, `altitude`:
\* 25_000.0 + (pressure_kpa / 2.488).powf(-1.0 / 11.388) * (216.6 / 273.15)
UpperStratosphereAltitude(p_kpa) ==
    25000000
    + Mul(Powf(FDiv(p_kpa, 2488), FDiv(-1000, 11388)),
          FDiv(216600, 273150)) \div 1000

calculate_altitude_UpperStratosphere(t_c, p_kpa) ==
    IF p_kpa > UpperStratosphereP
    THEN None
    ELSE Some(UpperStratosphereAltitude(p_kpa))

\* calculate_altitude(zone, temperature_c, pressure_kpa) -> Option<f64>
calculate_altitude(z, t_c, p_kpa) ==
    CASE z = "Troposphere" -> calculate_altitude_Troposphere(t_c, p_kpa)
      [] z = "LowerStratosphere" ->
             calculate_altitude_LowerStratosphere(t_c, p_kpa)
      [] z = "UpperStratosphere" ->
             calculate_altitude_UpperStratosphere(t_c, p_kpa)

(***************************************************************************)
(* src/main.rs, impl AltitudeCalculator                                    *)
(***************************************************************************)
\* AltitudeCalculator::determine_zone: a match on closed range patterns;
\* the first arm starts at 0.0.
AltitudeCalculator_determine_zone(h) ==
    IF 0 <= h /\ h <= 11000000 THEN "Troposphere"
    ELSE IF 11000000 <= h /\ h <= 25000000 THEN "LowerStratosphere"
    ELSE "UpperStratosphere"

\* `let pressure_kpa = pressure_hpa / 10.0`
HpaToKpa(p_hpa) == p_hpa \div 10

\* the `t` each arm of AltitudeCalculator::calculate_altitude computes.
ForwardTemperature(z, h) ==
    CASE z = "Troposphere" -> 15040 - Mul(6490, h)
      [] z = "LowerStratosphere" -> -56460
      [] z = "UpperStratosphere" -> -131210 + Mul(2990, h - 25000000)

\* the `p` each arm of AltitudeCalculator::calculate_altitude computes.
ForwardPressure(z, h) ==
    CASE z = "Troposphere" ->
             Mul(101290,
                 Powf(FDiv(ForwardTemperature(z, h) + 273100, 288080),
                      5256000))
      [] z = "LowerStratosphere" ->
             Mul(22650, Exp(Mul(-157000, h - 11000000)))
      [] z = "UpperStratosphere" ->
             Mul(2488,
                 Powf(FDiv(ForwardTemperature(z, h) + 273100, 216600),
                      -11388000))

\* `(pressure_kpa - p).abs() < 0.01`: TRUE returns altitude_m, FALSE panics.
PressureMatches(p_kpa, p_model) == Abs(p_kpa - p_model) < 10

(***************************************************************************)
(* Inputs.  Altitudes run over a kilometre grid and the metre on each side *)
(* of every zone edge; pressures over a 5 kPa grid, the values the tests   *)
(* use, the edges of every validity interval and the forward model's own   *)
(* pressures.                                                              *)
(***************************************************************************)
MaxAltitudeKm == 32

MaxDepthKm == 2

MaxPressureSteps == 40

ZoneEdges == {11000000, 20000000, 25000000}

Altitudes ==
    {1000000 * k : k \in 0..MaxAltitudeKm}
    \cup {e + d : e \in ZoneEdges, d \in {-1000, 1000}}

NegativeAltitudes == {-1000} \cup {-1000000 * k : k \in 1..MaxDepthKm}

\* the forward model's state at altitude h, zone chosen as main.rs does.
StateAtAltitude(h) ==
    LET z == AltitudeCalculator_determine_zone(h)
    IN  [t |-> ForwardTemperature(z, h), p |-> ForwardPressure(z, h)]

Temperatures ==
    {10000, -56500, -55000} \cup {StateAtAltitude(h).t : h \in Altitudes}

PressureEdges ==
    {2488, 22650, TroposphereP, LowerStratosphereP, UpperStratosphereP}

Pressures ==
    {5000 * k : k \in 1..MaxPressureSteps}
    \cup {1000, 3000, 20000, 90000, 100000, 200000}
    \cup {e + d : e \in PressureEdges, d \in -1..1}
    \cup {StateAtAltitude(h).p : h \in Altitudes}

\* (altitude_m, pressure_hpa) pairs quoted by main() and by main.rs's test.
QuotedReadings ==
    {<<0, 1013250>>, <<5000000, 540480>>,
     <<15000000, 120900>>, <<30000000, 24900>>}

MainTemperatures == {15040, -17410, -56460, -116260}

MainPressures ==
    {r[2] : r \in QuotedReadings}
    \cup {10 * (StateAtAltitude(h).p + d) : h \in Altitudes, d \in {-10, 0, 9}}

(***************************************************************************)
(* State: one call of one of the four functions.  `op` names the function, *)
(* the argument variables hold its arguments (0 or "none" when it has no   *)
(* such argument), and pc is "call" before the call, "returned" after it   *)
(* returned and "panicked" after it panicked.  The functions are pure, so  *)
(* the initial states enumerate the calls and each action runs one.        *)
(***************************************************************************)
Init ==
    /\ pc = "call"
    /\ p = 0
    /\ result = None
    /\ \/ /\ op = "determine_zone"
          /\ altitude_m \in Altitudes \cup NegativeAltitudes
          /\ zone = "none"
          /\ temperature_c = 0
          /\ pressure_hpa = 0
          /\ pressure_kpa = 0
       \/ /\ op = "AltitudeCalculator::determine_zone"
          /\ altitude_m \in Altitudes \cup NegativeAltitudes
          /\ zone = "none"
          /\ temperature_c = 0
          /\ pressure_hpa = 0
          /\ pressure_kpa = 0
       \/ /\ op = "calculate_altitude"
          /\ zone \in AtmosphereZone
          /\ temperature_c \in Temperatures
          /\ pressure_kpa \in Pressures
          /\ altitude_m = 0
          /\ pressure_hpa = 0
       \/ /\ op = "AltitudeCalculator::calculate_altitude"
          /\ temperature_c \in MainTemperatures
          /\ pressure_hpa \in MainPressures
          /\ altitude_m \in Altitudes
          /\ zone = "none"
          /\ pressure_kpa = 0

\* lib.rs determine_zone(altitude_m)
Call_determine_zone ==
    /\ pc = "call"
    /\ op = "determine_zone"
    /\ zone' = determine_zone(altitude_m)
    /\ pc' = "returned"
    /\ UNCHANGED <<op, altitude_m, temperature_c, pressure_hpa, pressure_kpa,
                   p, result>>

\* lib.rs calculate_altitude(zone, temperature_c, pressure_kpa)
Call_calculate_altitude ==
    /\ pc = "call"
    /\ op = "calculate_altitude"
    /\ p' = CASE zone = "Troposphere" -> TroposphereP
              [] zone = "LowerStratosphere" -> LowerStratosphereP
              [] zone = "UpperStratosphere" -> UpperStratosphereP
    /\ result' = calculate_altitude(zone, temperature_c, pressure_kpa)
    /\ pc' = "returned"
    /\ UNCHANGED <<op, zone, altitude_m, temperature_c, pressure_hpa,
                   pressure_kpa>>

\* main.rs AltitudeCalculator::determine_zone(altitude_m)
Call_AltitudeCalculator_determine_zone ==
    /\ pc = "call"
    /\ op = "AltitudeCalculator::determine_zone"
    /\ zone' = AltitudeCalculator_determine_zone(altitude_m)
    /\ pc' = "returned"
    /\ UNCHANGED <<op, altitude_m, temperature_c, pressure_hpa, pressure_kpa,
                   p, result>>

\* main.rs AltitudeCalculator::calculate_altitude(temperature_c,
\* pressure_hpa, altitude_m): returns altitude_m or panics.
Call_AltitudeCalculator_calculate_altitude ==
    /\ pc = "call"
    /\ op = "AltitudeCalculator::calculate_altitude"
    /\ LET pk == HpaToKpa(pressure_hpa)
           z == AltitudeCalculator_determine_zone(altitude_m)
           pm == ForwardPressure(z, altitude_m)
       IN  /\ pressure_kpa' = pk
           /\ zone' = z
           /\ p' = pm
           /\ IF PressureMatches(pk, pm)
              THEN result' = Some(altitude_m) /\ pc' = "returned"
              ELSE result' = None /\ pc' = "panicked"
    /\ UNCHANGED <<op, altitude_m, temperature_c, pressure_hpa>>

Next ==
    \/ Call_determine_zone
    \/ Call_calculate_altitude
    \/ Call_AltitudeCalculator_determine_zone
    \/ Call_AltitudeCalculator_calculate_altitude

Spec == Init /\ [][Next]_vars

TypeOK ==
    /\ pc \in {"call", "returned", "panicked"}
    /\ zone \in AtmosphereZone \cup {"none"}
    /\ result.some \in BOOLEAN

(***************************************************************************)
(* Properties.                                                             *)
(***************************************************************************)
Returned(f) == pc = "returned" /\ op = f

ZoneCalls == {"determine_zone", "AltitudeCalculator::determine_zone"}

\* C1: both determine_zone functions return Troposphere for every altitude
\* at or below 11000 m, negative altitudes included.
C1_TroposphereUpTo11000 ==
    (pc = "returned" /\ op \in ZoneCalls /\ altitude_m <= 11000000)
        => zone = "Troposphere"

\* C2: above 11000 m both determine_zone functions return LowerStratosphere
\* up to and including 25000 m and UpperStratosphere above it, and so agree.
C2_StratosphereBoundary25000 ==
    (pc = "returned" /\ op \in ZoneCalls /\ altitude_m > 11000000)
        => /\ zone = IF altitude_m <= 25000000 THEN "LowerStratosphere"
                     ELSE "UpperStratosphere"
           /\ determine_zone(altitude_m)
                  = AltitudeCalculator_determine_zone(altitude_m)

\* C3: for LowerStratosphere, calculate_altitude returns Some exactly when
\* 2.488 < pressure_kpa <= 22.65, whatever the temperature.
C3_LowerStratosphereInterval ==
    (Returned("calculate_altitude") /\ zone = "LowerStratosphere")
        => (result.some <=> (2488 < pressure_kpa /\ pressure_kpa <= 22650))

\* C4: for UpperStratosphere, calculate_altitude returns None for every
\* pressure_kpa above 2.488.
C4_UpperStratosphereAbove2488IsNone ==
    (Returned("calculate_altitude") /\ zone = "UpperStratosphere"
        /\ pressure_kpa > 2488)
        => ~result.some

\* C5 as stated: for Troposphere, calculate_altitude returns None for every
\* pressure_kpa <= 22.65 and every pressure_kpa >= the sea-level bound, the
\* bound itself included.
C5_TroposphereOpenInterval ==
    (Returned("calculate_altitude") /\ zone = "Troposphere"
        /\ (pressure_kpa <= 22650 \/ pressure_kpa >= p))
        => ~result.some

\* C5 amended: for Troposphere, calculate_altitude returns Some exactly when
\* 22.65 < pressure_kpa <= the sea-level bound (about 101.4 kPa): None at or
\* below 22.65 and above the bound (200 kPa included), Some at the bound.
C5_TroposphereHalfOpenInterval ==
    (Returned("calculate_altitude") /\ zone = "Troposphere")
        => /\ p = TroposphereP
           /\ 101290 < p /\ p < 200000
           /\ (pressure_kpa <= 22650 \/ pressure_kpa > p) => ~result.some
           /\ (22650 < pressure_kpa /\ pressure_kpa <= p) => result.some

\* C5 witness: a Troposphere call whose pressure equals the sea-level bound
\* returned an altitude.
C5_Witness ==
    /\ Returned("calculate_altitude")
    /\ zone = "Troposphere"
    /\ pressure_kpa = TroposphereP
    /\ result.some

\* altitudes strictly inside a zone of either classifier.
InteriorAltitudes ==
    {h \in Altitudes : h > 0 /\ \A e \in ZoneEdges : Abs(h - e) > 1000}

\* C6: when the arguments of calculate_altitude are the zone of an interior
\* altitude h and the forward model's temperature and pressure at h, the
\* result is Some altitude within 1 m of h.
C6_RoundTrip ==
    Returned("calculate_altitude")
        => \A h \in InteriorAltitudes :
              (/\ zone = determine_zone(h)
               /\ temperature_c = StateAtAltitude(h).t
               /\ pressure_kpa = StateAtAltitude(h).p)
                  => (result.some /\ Abs(result.value - h) <= 1000)

\* C7: the forward pressure computed for the call's altitude is strictly
\* greater than the forward pressure at every higher altitude.
C7_PressureDecreases ==
    (pc # "call" /\ op = "AltitudeCalculator::calculate_altitude")
        => \A h2 \in Altitudes :
              altitude_m < h2 => StateAtAltitude(h2).p < p

\* C8: no call of AltitudeCalculator::calculate_altitude panics.
C8_NoPanic == pc # "panicked"

\* C9: calculate_altitude returns Some altitude within 500 m of 2000 m for
\* (Troposphere, 10.0, 90.0), within 500 m of 12000 m for
\* (LowerStratosphere, -56.5, 20.0) and within 2000 m of 26000 m for
\* (UpperStratosphere, -55.0, 1.0).
C9_TestAltitudes ==
    Returned("calculate_altitude")
        => /\ (zone = "Troposphere" /\ temperature_c = 10000
                  /\ pressure_kpa = 90000)
                 => (result.some /\ Abs(result.value - 2000000) < 500000)
           /\ (zone = "LowerStratosphere" /\ temperature_c = -56500
                  /\ pressure_kpa = 20000)
                 => (result.some /\ Abs(result.value - 12000000) < 500000)
           /\ (zone = "UpperStratosphere" /\ temperature_c = -55000
                  /\ pressure_kpa = 1000)
                 => (result.some /\ Abs(result.value - 26000000) < 2000000)

\* C10: for every quoted (altitude, pressure) reading the supplied pressure
\* is within 0.01 kPa of the forward pressure and the call returns the
\* supplied altitude.
C10_QuotedReadingsAccepted ==
    (pc # "call" /\ op = "AltitudeCalculator::calculate_altitude"
        /\ <<altitude_m, pressure_hpa>> \in QuotedReadings)
        => /\ PressureMatches(pressure_kpa, p)
           /\ pc = "returned"
           /\ result = Some(altitude_m)

====
